---- MODULE Spec2Model ----
(***************************************************************************)
(* Audio perception pipeline of src/perception/service.py:                 *)
(*   capture callback (producer) -> audio queue -> processing loop         *)
(*   (consumer) -> VAD hysteresis state machine -> transcription flush,    *)
(* the transcriber's confidence score of src/perception/stt.py, and the    *)
(* event-detection loop of scripts/detect_event.py.                        *)
(*                                                                         *)
(* Probabilities are in tenths (0.6 is 6).  Durations are in milliseconds  *)
(* (max_speech_seconds = 0.08 is max_speech_ms = 80).                      *)
(***************************************************************************)
EXTENDS Integers, Sequences, FiniteSets, TLC

----------------------------------------------------------------------------
(* Bounds of the model *)

\* chunks the capture callback delivers in the short scenarios
MaxChunks == 6
\* chunks the capture callback delivers in the continuous-speech scenario
CapRunChunks == 160
\* chunks the capture callback delivers in the scenarios with a stop(), with
\* blocks of the wrong size, and with the full choice of transcripts
StopRunChunks == 4
\* utterances handed to the transcriber on its own
MaxUtterances == 2
\* ticks of the event-detection loop
MaxFrames == 5
\* ticks of the scene loop
MaxSceneTicks == 3

----------------------------------------------------------------------------
(* Program constants *)

WAITING == "WAITING"
SPEAKING == "SPEAKING"
SILENCE == "SILENCE"

\* vad.py: Silero takes exactly 512 samples at 16 kHz
SAMPLE_RATE == 16000
CHUNK_SAMPLES == 512

\* queue.Queue() is built with no maxsize: 0 means "no limit"
QueueMaxSize == 0

\* detect_event.py
NONE_LABEL == "NONE"

\* e.get("confirm_frames", 3)
DefaultConfirmFrames == 3

\* scene_service.py: _CHANGE_MAD_THRESHOLD = 25.0 / 255, in units of 1/255
CHANGE_MAD_THRESHOLD == 25

----------------------------------------------------------------------------
(* Configuration (config["audio"], config["vad"]) and environment *)

Config(onset, offset, msf, sf, ms) ==
    [ sample_rate       |-> SAMPLE_RATE,
      chunk_size        |-> CHUNK_SAMPLES,
      threshold_onset   |-> onset,
      threshold_offset  |-> offset,
      min_speech_frames |-> msf,
      silence_frames    |-> sf,
      max_speech_ms     |-> ms,
      confidence_threshold |-> 60,
      data_collection   |-> [ enabled |-> FALSE, save_all |-> "unset" ] ]

\* the data_collection section: off, on without a save_all key, on with
\* save_all false, on with save_all true
DataCollections ==
    { [ enabled |-> FALSE, save_all |-> "unset" ],
      [ enabled |-> TRUE,  save_all |-> "unset" ],
      [ enabled |-> TRUE,  save_all |-> "false" ],
      [ enabled |-> TRUE,  save_all |-> "true" ] }

\* configurations of the scenarios about what follows a transcription
TranscriptConfigs ==
    { [ Config(6, 4, 1, 1, 144) EXCEPT !.data_collection = dc ] :
        dc \in DataCollections }

\* onset/offset threshold pairs, in tenths
ThresholdPairs == { <<6, 4>>, <<7, 3>> }

\* max_speech_seconds of the short scenarios: 0.064 s is 1024 samples (two
\* chunks exactly), 0.144 s is 2304 samples (four chunks and a half)
ShortCaps == { 64, 144 }

Configs ==
    { Config(t[1], t[2], msf, sf, ms) :
        t \in ThresholdPairs, msf \in {1, 2}, sf \in {1, 2}, ms \in ShortCaps }

\* 5 s of speech at 16 kHz in chunks of 512 samples
ContinuousConfig == Config(6, 4, 2, 2, 5000)

\* audio.chunk_size set to 256: the stream delivers blocks of 256 samples
MisSizedConfig == [ Config(6, 4, 2, 2, 144) EXCEPT !.chunk_size = 256 ]

\* speech probabilities the classifier returns, in tenths
Probs == { 2, 3, 7, 8 }

VARIABLES
    cfg,              \* self._cfg: the configuration in force
    env,              \* the scenario: how many chunks arrive, which probabilities
    audio_queue,      \* self._audio_queue
    running,          \* self._running
    stopped_at,       \* chunks classified when stop() was called, -1 before
    produced,         \* number of chunks the capture callback has enqueued
    pc,               \* where the processing loop is
    flush_kind,       \* which call of _handle_utterance is in progress
    state,            \* _process_loop: state
    speech_buffer,    \* _process_loop: speech_buffer
    onset_counter,    \* _process_loop: onset_counter
    silence_counter,  \* _process_loop: silence_counter
    vad_state,        \* SileroVAD hidden state: chunks seen since the last reset
    trace,            \* what the consumer has done, in program order
    stt_outputs,      \* what the engine returns for the utterances to transcribe
    stt_results,      \* the TranscriptResults WhisperSTT.transcribe has returned
    scenario,         \* detect_event.run: the scenario file and the override
    confirm_map,      \* detect_event.run: confirm_map
    counters,         \* detect_event.run: counters
    frame_num,        \* detect_event.run: frame_num
    run_pc,           \* detect_event.run: in the loop, or how it was left
    camera_open,      \* Camera: open() called and close() not yet
    adapter_loaded,   \* adapter: load() called and unload() not yet
    detections,       \* what run has done, in program order
    last_frame_gray,  \* SceneService: self._last_frame_gray, none or one frame
    scene_ticks,      \* SceneService._loop: turns of the loop so far
    scene_log         \* what SceneService._loop has done, in program order

audio_vars == << cfg, env, audio_queue, running, stopped_at, produced, pc,
                 flush_kind, state, speech_buffer, onset_counter, silence_counter,
                 vad_state, trace >>

stt_vars == << stt_outputs, stt_results >>

\* what the audio service leaves alone
tracker_vars == << scenario, confirm_map, counters, frame_num, run_pc,
                   camera_open, adapter_loaded, detections >>

\* what the audio service leaves alone
scene_vars == << last_frame_gray, scene_ticks, scene_log >>

\* what the audio service leaves alone
beside_audio == << stt_vars, tracker_vars, scene_vars >>

vars == << audio_vars, stt_vars, tracker_vars, scene_vars >>

consumer_vars == << pc, flush_kind, state, speech_buffer, onset_counter,
                    silence_counter, vad_state, trace >>

----------------------------------------------------------------------------
(* _process_loop: values read from the configuration *)

\* max_samples = int(max_speech_seconds * sample_rate)
MaxSamples == (cfg.max_speech_ms * cfg.sample_rate) \div 1000

\* variant: a probability equal to the onset threshold does not qualify
OnsetQualifiesStrict(prob) == prob > cfg.threshold_onset

\* variant: one threshold for both directions, the lower one
OnsetQualifiesAtOffset(prob) == prob >= cfg.threshold_offset

\* prob >= onset_threshold
OnsetQualifies(prob) == prob >= cfg.threshold_onset

\* variant: one more qualifying chunk is needed
OnsetConfirmedLate(counter) == counter > cfg.min_speech_frames

\* onset_counter >= min_speech_frames
OnsetConfirmed(counter) == counter >= cfg.min_speech_frames

\* variant: a probability equal to the offset threshold counts as silence
IsSilenceInclusive(prob) == prob <= cfg.threshold_offset

\* prob < offset_threshold
IsSilence(prob) == prob < cfg.threshold_offset

\* variant: one more silent chunk is needed
SilenceConfirmedLate(counter) == counter > cfg.silence_frames

\* silence_counter >= silence_frames_needed
SilenceConfirmed(counter) == counter >= cfg.silence_frames

\* variant: chunks are counted, not samples
BufferedChunks(buffer) == Len(buffer)

\* buffered_samples = len(speech_buffer) * chunk_size
BufferedSamples(buffer) == Len(buffer) * cfg.chunk_size

\* variant: the cap is passed, not reached
CapReachedStrict(buffer) == BufferedSamples(buffer) > MaxSamples

\* buffered_samples >= max_samples
CapReached(buffer) == BufferedSamples(buffer) >= MaxSamples

----------------------------------------------------------------------------
(* queue.Queue as the service uses it *)

\* variant: a queue built with maxsize 2
QueueFullAtTwo(q) == Len(q) >= 2

\* put() waits while a bounded queue is full; maxsize <= 0 never is
QueueFull(q) == QueueMaxSize > 0 /\ Len(q) >= QueueMaxSize

\* variant: a chunk that finds two waiting is dropped
QueuePutDropping(q, item) == IF Len(q) >= 2 THEN q ELSE Append(q, item)

\* put() adds the item at the end
QueuePut(q, item) == Append(q, item)

\* variant: the newest item is handed out
QueueGetNewest(q) == [ item |-> q[Len(q)], rest |-> SubSeq(q, 1, Len(q) - 1) ]

\* get() hands out the oldest item
QueueGet(q) == [ item |-> Head(q), rest |-> Tail(q) ]

----------------------------------------------------------------------------
(* What the consumer does, as trace entries *)

Entry(kind, chunk, prob, st, speaking, chunks) ==
    [ kind |-> kind, chunk |-> chunk, prob |-> prob, state |-> st,
      is_speaking |-> speaking, chunks |-> chunks, payload |-> << >> ]

\* prob = self._vad.speech_probability(chunk), evaluated in state st
Classified(chunk, prob, st) == Entry("classify", chunk.seq, prob, st, FALSE, << >>)

\* self._publish_vad(is_speaking=...)
PublishVad(speaking) == Entry("publish_vad", -1, 0, "", speaking, << >>)

\* self._vad.reset_states()
ResetStates == Entry("reset_states", -1, 0, "", FALSE, << >>)

\* self._handle_utterance(speech_buffer): the buffer handed to the transcriber
Transcribe(buffer) == Entry("transcribe", -1, 0, "", FALSE, buffer)

\* variant: the buffer is handed over first, the end is published after
EndOfUtterancePublishedLate(buffer) ==
    << ResetStates, Transcribe(buffer), PublishVad(FALSE) >>

\* the end of an utterance: publish, reset the classifier, hand the buffer over
EndOfUtterance(buffer) == << PublishVad(FALSE), ResetStates, Transcribe(buffer) >>

\* variant: the forced flush leaves the classifier as it is
ForcedFlushNoReset(buffer) == << PublishVad(FALSE), Transcribe(buffer) >>

\* the hard cap: the same three calls, written out a second time
ForcedFlush(buffer) == << PublishVad(FALSE), ResetStates, Transcribe(buffer) >>

----------------------------------------------------------------------------
(* The transcriber, stt.py.  Log-probabilities and probabilities are in
   hundredths; a confidence is in units of 1/ConfidenceOne; a text is a
   sequence of characters. *)

\* LOW, HIGH = -1.5, -0.3
LOW == -150

HIGH == -30

\* the confidence 1.0: log_conf is kept in units of 1/(HIGH - LOW) and
\* 1.0 - no_speech_prob in hundredths
ConfidenceOne == (HIGH - LOW) * 100

MinOf(a, b) == IF a < b THEN a ELSE b

MaxOf(a, b) == IF a > b THEN a ELSE b

\* variant: the linear map without the clamp
LogConfUnclamped(avg_logprob) == avg_logprob - LOW

\* log_conf = (avg_logprob - LOW) / (HIGH - LOW), clamped by
\* max(0.0, min(1.0, log_conf))
LogConf(avg_logprob) == MaxOf(0, MinOf(HIGH - LOW, avg_logprob - LOW))

\* _compute_confidence: log_conf * (1.0 - no_speech_prob)
ComputeConfidence(avg_logprob, no_speech_prob) ==
    LogConf(avg_logprob) * (100 - no_speech_prob)

RECURSIVE Sum(_)
Sum(values) == IF values = << >> THEN 0 ELSE Head(values) + Sum(Tail(values))

\* np.mean([...]) of the segments' values; the segment lists of the scenarios
\* keep the mean a whole number of hundredths
Mean(values) == Sum(values) \div Len(values)

RECURSIVE StripLeft(_)
StripLeft(text) ==
    IF text # << >> /\ Head(text) = " " THEN StripLeft(Tail(text)) ELSE text

RECURSIVE StripRight(_)
StripRight(text) ==
    IF text # << >> /\ text[Len(text)] = " "
    THEN StripRight(SubSeq(text, 1, Len(text) - 1))
    ELSE text

\* result.get("text", "").strip()
Strip(text) == StripRight(StripLeft(text))

\* one segment of the engine's output
Segment(avg_logprob, no_speech_prob) ==
    [ avg_logprob |-> avg_logprob, no_speech_prob |-> no_speech_prob ]

\* what mlx_whisper.transcribe returns
WhisperOutput(text, segments) == [ text |-> text, segments |-> segments ]

\* variant: no segments scored like a segment without a no_speech_prob key
NoSegmentsAsSpeech == Segment(-100, 0)

\* no segments: avg_logprob = -1.0, no_speech_prob = 1.0
NoSegments == Segment(-100, 100)

\* the two means over the segments, or the values for no segments
SegmentScores(segments) ==
    IF segments # << >>
    THEN Segment(Mean([ i \in 1..Len(segments) |-> segments[i].avg_logprob ]),
                 Mean([ i \in 1..Len(segments) |-> segments[i].no_speech_prob ]))
    ELSE NoSegments

\* WhisperSTT.transcribe: the TranscriptResult for an output of the engine
SttTranscribe(output) ==
    LET scores == SegmentScores(output.segments) IN
    [ text           |-> Strip(output.text),
      confidence     |-> ComputeConfidence(scores.avg_logprob, scores.no_speech_prob),
      no_speech_prob |-> scores.no_speech_prob,
      avg_logprob    |-> scores.avg_logprob ]

\* log-probabilities and no-speech probabilities of the segments, in hundredths
LogProbs == { -200, -150, -100, -90, -30, 0 }

NoSpeechProbs == { 0, 50, 100 }

Segments == { Segment(lp, nsp) : lp \in LogProbs, nsp \in NoSpeechProbs }

\* no segment, one segment, or two segments of which the first is sure speech
SegmentLists ==
    { << >> } \cup { << sg >> : sg \in Segments }
              \cup { << Segment(-30, 0), sg >> : sg \in Segments }

\* " hi", the way the engine returns a text
SpokenText == << " ", "h", "i" >>

\* outputs of the engine for an utterance that carries words
ScoredOutputs == { WhisperOutput(SpokenText, segs) : segs \in SegmentLists }

\* outputs of the engine for the utterances of the audio scenarios: nothing
\* at all, a blank text, words with a high score, words with a low score
TranscriptOutputs ==
    { WhisperOutput(<< >>, << >>),
      WhisperOutput(<< " " >>, << Segment(-100, 50) >>),
      WhisperOutput(SpokenText, << Segment(-30, 0) >>),
      WhisperOutput(SpokenText, << Segment(-100, 50) >>) }

\* the output in the scenarios that are about segmentation only
PlainOutputs == { WhisperOutput(SpokenText, << Segment(-30, 0) >>) }

----------------------------------------------------------------------------
(* _handle_utterance, after self._stt.transcribe returned *)

\* result = self._stt.transcribe(audio): the call has returned
Transcribed(result) ==
    [ Entry("transcribed", -1, 0, "", FALSE, << >>)
        EXCEPT !.payload = << result.text, result.confidence >> ]

\* self._mqtt.publish(Perception.TRANSCRIPT, payload)
PublishTranscript(result, low_confidence) ==
    [ Entry("publish_transcript", -1, 0, "", FALSE, << >>)
        EXCEPT !.payload = << result.text, low_confidence >> ]

\* self._save_audio(audio, payload)
SaveAudio(buffer, result, low_confidence) ==
    [ Entry("save_audio", -1, 0, "", FALSE, buffer)
        EXCEPT !.payload = << result.text, low_confidence >> ]

\* variant: every result counts as text
TextPresentAlways(result) == TRUE

\* if not result.text: return
TextPresent(result) == result.text # << >>

\* result.confidence < self._stt_cfg["confidence_threshold"], the threshold
\* in hundredths
LowConfidence(result, config) ==
    result.confidence < config.confidence_threshold * (HIGH - LOW)

\* self._dc_cfg.get("save_all", True)
SaveAll(config) == config.data_collection.save_all # "false"

\* if self._dc_cfg["enabled"]: if save_all or low_confidence
SaveWanted(config, low_confidence) ==
    config.data_collection.enabled /\ (SaveAll(config) \/ low_confidence)

\* what _handle_utterance does once the transcription of `buffer` has returned
UtteranceEntries(buffer, result, config) ==
    LET low_confidence == LowConfidence(result, config) IN
    << Transcribed(result) >> \o
    ( IF ~TextPresent(result) THEN << >>
      ELSE << PublishTranscript(result, low_confidence) >> \o
           ( IF SaveWanted(config, low_confidence)
             THEN << SaveAudio(buffer, result, low_confidence) >>
             ELSE << >> ) )

----------------------------------------------------------------------------
\* a scenario: how many chunks arrive, which probabilities the classifier
\* returns, whether somebody calls stop()
Scenario(limit, probs, stops, outputs) ==
    [ limit |-> limit, probs |-> probs, stops |-> stops, outputs |-> outputs ]

\* PerceptionService.__init__ and the first lines of _process_loop
AudioStart ==
    /\ audio_queue = << >>
    /\ running = TRUE
    /\ stopped_at = -1
    /\ produced = 0
    /\ pc = "loop"
    /\ flush_kind = "none"
    /\ state = WAITING
    /\ speech_buffer = << >>
    /\ onset_counter = 0
    /\ silence_counter = 0
    /\ vad_state = 0
    /\ trace = << >>

\* no transcription outside the service
SttIdle ==
    /\ stt_outputs = << >>
    /\ stt_results = << >>

\* no event detection running
TrackerIdle ==
    /\ scenario = [ events |-> << >>, override |-> << >> ]
    /\ confirm_map = << >>
    /\ counters = << >>
    /\ frame_num = 0
    /\ run_pc = "idle"
    /\ camera_open = FALSE
    /\ adapter_loaded = FALSE
    /\ detections = << >>

\* SceneService.__init__: no frame stored, the loop not entered
SceneIdle ==
    /\ last_frame_gray = << >>
    /\ scene_ticks = 0
    /\ scene_log = << >>

Init ==
    /\ \/ /\ cfg \in Configs
          /\ env = Scenario(MaxChunks, Probs, FALSE, PlainOutputs)
       \/ /\ cfg \in Configs
          /\ env = Scenario(StopRunChunks, Probs, TRUE, PlainOutputs)
       \/ /\ cfg = MisSizedConfig
          /\ env = Scenario(StopRunChunks, Probs, FALSE, PlainOutputs)
       \/ /\ cfg \in TranscriptConfigs
          /\ env = Scenario(StopRunChunks, Probs, FALSE, TranscriptOutputs)
       \/ /\ cfg = ContinuousConfig
          /\ env = Scenario(CapRunChunks, { 8 }, FALSE, PlainOutputs)
    /\ AudioStart
    /\ SttIdle
    /\ TrackerIdle
    /\ SceneIdle

\* the classifier's hidden state after the consumer did `entries`: every
\* classified chunk advances it, reset_states() clears it
RECURSIVE VadAfter(_, _)
VadAfter(hidden, entries) ==
    IF entries = << >> THEN hidden
    ELSE LET e == Head(entries) IN
         VadAfter(IF e.kind = "reset_states" THEN 0
                  ELSE IF e.kind = "classify" THEN hidden + 1
                  ELSE hidden,
                  Tail(entries))

\* the consumer does `entries`, in this order
Does(entries) ==
    /\ trace' = trace \o entries
    /\ vad_state' = VadAfter(vad_state, entries)

\* variant: the loop never tests the flag
AfterTurnForever == "loop"

\* while self._running: the test that follows every turn of the loop; "loop"
\* is the consumer waiting in self._audio_queue.get(timeout=1.0)
AfterTurn == IF running THEN "loop" ELSE "exited"

\* variant: chunks judged silent are left out of the buffer
AppendUnlessSilent(buffer, chunk, prob) ==
    IF IsSilence(prob) THEN buffer ELSE Append(buffer, chunk)

\* speech_buffer.append(chunk): every chunk consumed in SPEAKING, whatever prob
AppendChunk(buffer, chunk, prob) == Append(buffer, chunk)

\* audio_callback: sounddevice delivers one block of chunk_size samples
\* variant: the callback also resets the onset count and runs the classifier
AudioCallbackCounting ==
    /\ pc \notin { "crashed", "exited" }
    /\ produced < env.limit
    /\ ~QueueFull(audio_queue)
    /\ audio_queue' = QueuePut(audio_queue,
                               [ seq |-> produced, len |-> cfg.chunk_size ])
    /\ produced' = produced + 1
    /\ onset_counter' = 0
    /\ vad_state' = vad_state + 1
    /\ UNCHANGED beside_audio
    /\ UNCHANGED << cfg, env, running, stopped_at >>
    /\ UNCHANGED << pc, flush_kind, state, speech_buffer, silence_counter, trace >>

AudioCallback ==
    /\ pc \notin { "crashed", "exited" }
    /\ produced < env.limit
    /\ ~QueueFull(audio_queue)
    /\ audio_queue' = QueuePut(audio_queue,
                               [ seq |-> produced, len |-> cfg.chunk_size ])
    /\ produced' = produced + 1
    /\ UNCHANGED beside_audio
    /\ UNCHANGED << cfg, env, running, stopped_at >>
    /\ UNCHANGED consumer_vars

\* stop(): self._running = False
Stop ==
    /\ env.stops
    /\ running
    /\ running' = FALSE
    /\ stopped_at' = Len(SelectSeq(trace, LAMBDA e : e.kind = "classify"))
    /\ UNCHANGED beside_audio
    /\ UNCHANGED << cfg, env, audio_queue, produced >>
    /\ UNCHANGED consumer_vars

\* variant: a tick without a chunk counts as a silent chunk while SPEAKING
QueueTimeoutAsSilence ==
    /\ pc = "loop"
    /\ audio_queue = << >>
    /\ pc' = AfterTurn
    /\ silence_counter' = IF state = SPEAKING THEN silence_counter + 1
                          ELSE silence_counter
    /\ UNCHANGED beside_audio
    /\ UNCHANGED << cfg, env, audio_queue, running, stopped_at, produced, flush_kind,
                    state, speech_buffer, onset_counter, vad_state, trace >>

\* self._audio_queue.get(timeout=1.0) raises queue.Empty: continue
QueueTimeout ==
    /\ pc = "loop"
    /\ audio_queue = << >>
    /\ pc' = AfterTurn
    /\ UNCHANGED beside_audio
    /\ UNCHANGED << cfg, env, audio_queue, running, stopped_at, produced, flush_kind,
                    state, speech_buffer, onset_counter, silence_counter,
                    vad_state, trace >>

\* variant: the chunk that confirms the onset opens the buffer
OnsetBufferWithChunk(chunk) == << chunk >>

\* speech_buffer = [] on the onset: the confirming chunk is not kept
OnsetBuffer(chunk) == << >>

\* state == _WAITING
WaitingStep(chunk, prob) ==
    LET seen == << Classified(chunk, prob, WAITING) >> IN
    IF OnsetQualifies(prob)
    THEN IF OnsetConfirmed(onset_counter + 1)
         THEN /\ state' = SPEAKING
              /\ speech_buffer' = OnsetBuffer(chunk)
              /\ silence_counter' = 0
              /\ onset_counter' = 0
              /\ Does(seen \o << PublishVad(TRUE) >>)
              /\ pc' = AfterTurn
              /\ UNCHANGED flush_kind
         ELSE /\ onset_counter' = onset_counter + 1
              /\ Does(seen)
              /\ pc' = AfterTurn
              /\ UNCHANGED << flush_kind, state, speech_buffer, silence_counter >>
    ELSE /\ onset_counter' = 0
         /\ Does(seen)
         /\ pc' = AfterTurn
         /\ UNCHANGED << flush_kind, state, speech_buffer, silence_counter >>

\* state == _SPEAKING, up to the call of _handle_utterance
SpeakingStep(chunk, prob) ==
    LET seen     == << Classified(chunk, prob, SPEAKING) >>
        buffer   == AppendChunk(speech_buffer, chunk, prob)
        silences == IF IsSilence(prob) THEN silence_counter + 1 ELSE 0
    IN
    /\ speech_buffer' = buffer
    /\ silence_counter' = silences
    /\ UNCHANGED onset_counter
    /\ IF IsSilence(prob) /\ SilenceConfirmed(silences)
       THEN /\ state' = WAITING
            /\ Does(seen \o EndOfUtterance(buffer))
            /\ pc' = "transcribing"
            /\ flush_kind' = "silence"
       ELSE IF CapReached(buffer)
       THEN /\ state' = WAITING
            /\ Does(seen \o ForcedFlush(buffer))
            /\ pc' = "transcribing"
            /\ flush_kind' = "cap"
       ELSE /\ Does(seen)
            /\ pc' = AfterTurn
            /\ UNCHANGED << flush_kind, state >>

\* one turn of the loop that gets a chunk: classify it, run the state machine
ProcessChunk ==
    /\ pc = "loop"
    /\ audio_queue # << >>
    /\ LET got == QueueGet(audio_queue) IN
       /\ audio_queue' = got.rest
       /\ IF got.item.len # CHUNK_SAMPLES
          THEN \* speech_probability raises ValueError: the loop dies
               /\ pc' = "crashed"
               /\ UNCHANGED << flush_kind, state, speech_buffer, onset_counter,
                               silence_counter, vad_state, trace >>
          ELSE \E prob \in env.probs :
               IF state = WAITING
               THEN WaitingStep(got.item, prob)
               ELSE SpeakingStep(got.item, prob)
    /\ UNCHANGED beside_audio
    /\ UNCHANGED << cfg, env, running, stopped_at, produced >>

\* variant: the buffer is still there when the hard cap is tested
AfterSilenceEndKept(buffer) == buffer

\* speech_buffer = [] after the silence-triggered _handle_utterance: the
\* buffer the hard-cap test of the same turn sees
AfterSilenceEnd(buffer) == << >>

\* _handle_utterance returns: clear the buffer and the counters, then (after a
\* silence-triggered end) the hard-cap test on the now empty buffer
HandleUtterance ==
    /\ pc = "transcribing"
    /\ speech_buffer' = << >>
    /\ silence_counter' = 0
    /\ onset_counter' = 0
    /\ \E output \in env.outputs :
         LET entries == UtteranceEntries(speech_buffer, SttTranscribe(output), cfg) IN
         IF flush_kind = "silence" /\ CapReached(AfterSilenceEnd(speech_buffer))
         THEN \* a second flush of an empty buffer: np.concatenate([]) raises
              /\ Does(entries \o ForcedFlush(AfterSilenceEnd(speech_buffer)))
              /\ pc' = "crashed"
              /\ flush_kind' = "cap"
         ELSE /\ Does(entries)
              /\ pc' = AfterTurn
              /\ flush_kind' = "none"
    /\ UNCHANGED beside_audio
    /\ UNCHANGED << cfg, env, audio_queue, running, stopped_at, produced, state >>

Next ==
    \/ AudioCallback
    \/ Stop
    \/ QueueTimeout
    \/ ProcessChunk
    \/ HandleUtterance

Spec == Init /\ [][Next]_vars

----------------------------------------------------------------------------
(* WhisperSTT.transcribe on its own: the engine's outputs are drawn
   beforehand, every call scores the next one *)

\* the audio service configured and not started: no chunk ever arrives
AudioIdle ==
    /\ cfg = ContinuousConfig
    /\ env = Scenario(0, { }, FALSE, { })
    /\ AudioStart

SttInit ==
    /\ stt_outputs \in UNION { [ 1..n -> ScoredOutputs \cup TranscriptOutputs ] :
                                 n \in 1..MaxUtterances }
    /\ stt_results = << >>
    /\ AudioIdle
    /\ TrackerIdle
    /\ SceneIdle

\* WhisperSTT.transcribe(audio)
WhisperTranscribe ==
    /\ Len(stt_results) < Len(stt_outputs)
    /\ stt_results' =
          Append(stt_results, SttTranscribe(stt_outputs[Len(stt_results) + 1]))
    /\ UNCHANGED stt_outputs
    /\ UNCHANGED << audio_vars, tracker_vars, scene_vars >>

SttNext == WhisperTranscribe

SpecScorer == SttInit /\ [][SttNext]_vars

----------------------------------------------------------------------------
(* The event-detection loop, scripts/detect_event.py: run.  An optional value
   (a confirm_frames key, the override) is a sequence of no or one element. *)

\* one entry of the scenario's events
Event(label, confirm_frames) ==
    [ label |-> label, confirm_frames |-> confirm_frames ]

\* the scenario file and --confirm-frames
EventScenario(events, override) == [ events |-> events, override |-> override ]

\* make_confirm_map: {e["label"]: e.get("confirm_frames", 3) for e in events};
\* of two events with one label the later one sets the value
MakeConfirmMap(events) ==
    LET last(l) == CHOOSE i \in 1..Len(events) :
                      /\ events[i].label = l
                      /\ \A j \in (i + 1)..Len(events) : events[j].label # l
    IN [ l \in { events[i].label : i \in 1..Len(events) } |->
           IF events[last(l)].confirm_frames = << >>
           THEN DefaultConfirmFrames
           ELSE events[last(l)].confirm_frames[1] ]

\* confirm_map, after the override if there is one
ConfirmMap(sc) ==
    IF sc.override # << >>
    THEN [ l \in DOMAIN MakeConfirmMap(sc.events) |-> sc.override[1] ]
    ELSE MakeConfirmMap(sc.events)

\* the order in which counters.items() yields the labels: first appearance
RECURSIVE LabelOrder(_)
LabelOrder(events) ==
    IF events = << >> THEN << >>
    ELSE LET before == LabelOrder(SubSeq(events, 1, Len(events) - 1))
             l == events[Len(events)].label
         IN IF \E i \in 1..Len(before) : before[i] = l
            THEN before
            ELSE Append(before, l)

\* variant: the counters of the other labels are kept
UpdateCountersKeeping(cs, label) ==
    [ l \in DOMAIN cs |-> IF label = l THEN cs[l] + 1 ELSE cs[l] ]

\* for tracked_label in list(counters): += 1 if it is the label, else = 0
UpdateCounters(cs, label) ==
    [ l \in DOMAIN cs |-> IF label = l THEN cs[l] + 1 ELSE 0 ]

\* variant: a threshold of 0 is a threshold like any other
ThresholdReachedOrZero(count, threshold) == count >= threshold

\* variant: one frame more than the threshold
ThresholdExceeded(count, threshold) == threshold # 0 /\ count > threshold

\* threshold and count >= threshold
ThresholdReached(count, threshold) == threshold # 0 /\ count >= threshold

\* variant: the reserved label is a label like any other
NotReservedAlways(l) == TRUE

\* tracked_label != NONE_LABEL
NotReserved(l) == l # NONE_LABEL

\* the condition of the trigger check for one label
Confirmed(cs, cm, l) == ThresholdReached(cs[l], cm[l]) /\ NotReserved(l)

\* for tracked_label, count in counters.items(): the first label that is
\* confirmed, if any
RECURSIVE FirstConfirmed(_, _, _)
FirstConfirmed(order, cs, cm) ==
    IF order = << >> THEN << >>
    ELSE IF Confirmed(cs, cm, Head(order)) THEN << Head(order) >>
    ELSE FirstConfirmed(Tail(order), cs, cm)

\* variant: the loop goes on after a trigger
AfterTriggerContinue == "loop"

\* return  # exit after first confirmed event
AfterTrigger == "returned"

\* what run does, as an entry: a failed capture, a classified frame with the
\* counters after the update, a call of trigger_event
Detection(kind, frame, label, counts) ==
    [ kind |-> kind, frame |-> frame, label |-> label, counters |-> counts ]

\* the labels the adapter returns: two events, the reserved label, a label
\* that no scenario lists
DetectedLabels == { "A", "B", NONE_LABEL, "X" }

\* spec Example 2: A confirmed by 3 frames, B by 2
ExampleEvents == << Event("A", << 3 >>), Event("B", << 2 >>) >>

EventScenarios ==
    { EventScenario(ExampleEvents, << >>),
      EventScenario(ExampleEvents, << 2 >>),
      EventScenario(ExampleEvents, << 0 >>),
      EventScenario(<< Event("A", << >>), Event("B", << 1 >>) >>, << >>),
      EventScenario(<< Event("A", << 0 >>), Event("B", << 2 >>) >>, << >>),
      EventScenario(<< Event("A", << 2 >>), Event(NONE_LABEL, << 2 >>) >>, << >>),
      EventScenario(<< Event("A", << 2 >>), Event("A", << 1 >>) >>, << >>) }

\* run, up to the loop: confirm_map, adapter.load(), camera.open(), counters
TrackerInit ==
    /\ scenario \in EventScenarios
    /\ confirm_map = ConfirmMap(scenario)
    /\ counters = [ l \in DOMAIN ConfirmMap(scenario) |-> 0 ]
    /\ frame_num = 0
    /\ run_pc = "loop"
    /\ camera_open = TRUE
    /\ adapter_loaded = TRUE
    /\ detections = << >>
    /\ AudioIdle
    /\ SttIdle
    /\ SceneIdle

\* variant: a missing frame breaks the run like a different label
AfterCaptureFailureReset(counts) == [ l \in DOMAIN counts |-> 0 ]

\* frame is None: sleep and continue, before the counters are touched
AfterCaptureFailure(counts) == counts

\* one turn of the loop in which camera.capture() returns None
CaptureFails ==
    /\ run_pc = "loop"
    /\ frame_num < MaxFrames
    /\ frame_num' = frame_num + 1
    /\ detections' = Append(detections,
                            Detection("capture_failed", frame_num + 1, "",
                                      AfterCaptureFailure(counters)))
    /\ counters' = AfterCaptureFailure(counters)
    /\ UNCHANGED << scenario, confirm_map, run_pc, camera_open, adapter_loaded >>
    /\ UNCHANGED << audio_vars, stt_vars, scene_vars >>

\* one turn of the loop with a frame: detect, update the counters, check for
\* a confirmed event; after a trigger return, through the finally clause
DetectFrame ==
    /\ run_pc = "loop"
    /\ frame_num < MaxFrames
    /\ frame_num' = frame_num + 1
    /\ \E label \in DetectedLabels :
         LET updated == UpdateCounters(counters, label)
             fired == FirstConfirmed(LabelOrder(scenario.events), updated, confirm_map)
             seen == Detection("detect", frame_num + 1, label, updated)
         IN /\ counters' = updated
            /\ IF fired # << >>
               THEN /\ detections' = detections \o
                         << seen,
                            Detection("trigger_event", frame_num + 1, fired[1], updated) >>
                    /\ run_pc' = AfterTrigger
                    /\ camera_open' = FALSE
                    /\ adapter_loaded' = FALSE
               ELSE /\ detections' = Append(detections, seen)
                    /\ UNCHANGED << run_pc, camera_open, adapter_loaded >>
    /\ UNCHANGED << scenario, confirm_map >>
    /\ UNCHANGED << audio_vars, stt_vars, scene_vars >>

\* variant: the failure is logged and the loop goes on
AfterDetectErrorAbsorbed == "loop"

\* adapter.detect raises inside try/finally with no except clause: the
\* exception leaves run
AfterDetectError == "raised"

\* one turn of the loop in which adapter.detect(frame, prompt) raises; the
\* finally clause closes the camera and unloads the adapter
DetectRaises ==
    /\ run_pc = "loop"
    /\ frame_num < MaxFrames
    /\ frame_num' = frame_num + 1
    /\ detections' = Append(detections,
                            Detection("detect_raised", frame_num + 1, "", counters))
    /\ run_pc' = AfterDetectError
    /\ camera_open' = FALSE
    /\ adapter_loaded' = FALSE
    /\ UNCHANGED << scenario, confirm_map, counters >>
    /\ UNCHANGED << audio_vars, stt_vars, scene_vars >>

TrackerNext ==
    \/ CaptureFails
    \/ DetectFrame
    \/ DetectRaises

SpecTracker == TrackerInit /\ [][TrackerNext]_vars

----------------------------------------------------------------------------
(* Change detection in the scene loop, scene_service.py.  A gray frame is a
   sequence of pixel values in units of 1/255; a magnitude is the mean
   absolute difference in units of 1/(255 * number of pixels), that is the sum
   of the absolute differences. *)

Abs(x) == IF x < 0 THEN -x ELSE x

\* np.mean(np.abs(current_gray - last_gray)), times the number of pixels
MeanAbsDiff(current, last) ==
    Sum([ i \in 1..Len(current) |-> Abs(current[i] - last[i]) ])

\* variant: a magnitude equal to the threshold is flagged
ExceedsThresholdInclusive(mad, pixels) == mad >= CHANGE_MAD_THRESHOLD * pixels

\* mad > _CHANGE_MAD_THRESHOLD
ExceedsThreshold(mad, pixels) == mad > CHANGE_MAD_THRESHOLD * pixels

\* _detect_change(current_gray, last_gray); last is no frame or one frame
DetectChange(current, last) ==
    IF last = << >>
    THEN [ magnitude |-> 0, exceeded |-> FALSE ]
    ELSE [ magnitude |-> MeanAbsDiff(current, last[1]),
           exceeded  |-> ExceedsThreshold(MeanAbsDiff(current, last[1]),
                                          Len(current)) ]

\* gray values of a pixel, and the frames of two pixels made of them
GrayLevels == { 0, 25, 30, 60 }

GrayFrames == { << a, b >> : a \in GrayLevels, b \in GrayLevels }

\* what one turn of the loop did
SceneEntry(kind, frame, change) ==
    [ kind |-> kind, frame |-> frame, magnitude |-> change.magnitude,
      change_detected |-> change.exceeded ]

\* SceneService.start: the loop is entered with no frame stored
SceneInit ==
    /\ SceneIdle
    /\ AudioIdle
    /\ SttIdle
    /\ TrackerIdle

\* one turn of _loop in which self._camera.capture() returns None
SceneCaptureFails ==
    /\ scene_ticks < MaxSceneTicks
    /\ scene_ticks' = scene_ticks + 1
    /\ scene_log' = Append(scene_log,
                           SceneEntry("capture_failed", << >>,
                                      [ magnitude |-> 0, exceeded |-> FALSE ]))
    /\ UNCHANGED last_frame_gray
    /\ UNCHANGED << audio_vars, stt_vars, tracker_vars >>

\* self._last_frame_gray = current_gray
StoredAfter(current, last, change) == << current >>

\* one turn of _loop with a frame: detect the change, store the frame
SceneSnapshot ==
    /\ scene_ticks < MaxSceneTicks
    /\ scene_ticks' = scene_ticks + 1
    /\ \E current \in GrayFrames :
         LET change == DetectChange(current, last_frame_gray) IN
         /\ last_frame_gray' = StoredAfter(current, last_frame_gray, change)
         /\ scene_log' = Append(scene_log, SceneEntry("snapshot", current, change))
    /\ UNCHANGED << audio_vars, stt_vars, tracker_vars >>

SceneNext ==
    \/ SceneCaptureFails
    \/ SceneSnapshot

SpecScene == SceneInit /\ [][SceneNext]_vars

----------------------------------------------------------------------------
(* Reading the trace *)

IsClassify(e) == e.kind = "classify"

\* the chunks classified and fed to the segmenter so far, oldest first
Fed == SelectSeq(trace, IsClassify)

Max(S) == CHOOSE x \in S : \A y \in S : y <= x

\* how many entries at the end of F all satisfy Test
Trailing(F, Test(_)) ==
    LET bad == { i \in 1..Len(F) : ~Test(F[i]) } IN
    IF bad = { } THEN Len(F) ELSE Len(F) - Max(bad)

ConsumedWaiting(e) == e.state = WAITING
ConsumedSpeaking(e) == e.state = SPEAKING
QualifyingInWaiting(e) == e.state = WAITING /\ e.prob >= cfg.threshold_onset
SilentInSpeaking(e) == e.state = SPEAKING /\ e.prob < cfg.threshold_offset

\* length of the run of qualifying chunks that ends F, since WAITING was entered
QualifyingRun(F) == Trailing(F, QualifyingInWaiting)

\* chunks consumed in the SPEAKING episode that ends F
SpeakingRun(F) == Trailing(F, ConsumedSpeaking)

\* length of the run of silent chunks that ends F, within the SPEAKING episode
SilentRun(F) == Trailing(F, SilentInSpeaking)

\* max_speech_seconds x sample_rate, in samples
ConfiguredMaximum == (cfg.max_speech_ms * cfg.sample_rate) \div 1000

\* the last chunk fed
LastFed(F) == F[Len(F)]

----------------------------------------------------------------------------
(* C1: from WAITING the segmenter enters SPEAKING at a chunk if and only if
   that chunk completes the first run of min_speech_frames consecutive chunks
   with probability >= onset_threshold since WAITING was entered; a chunk below
   the threshold resets OnsetCounter to 0, so qualifying chunks separated by a
   non-qualifying one never add up. *)
OnsetRule ==
    [][ /\ (state = WAITING /\ Fed' # Fed) =>
             /\ (state' = SPEAKING) <=> (QualifyingRun(Fed') = cfg.min_speech_frames)
             /\ QualifyingRun(Fed') <= cfg.min_speech_frames
             /\ (state' = WAITING) => (onset_counter' = QualifyingRun(Fed'))
             /\ (LastFed(Fed').prob < cfg.threshold_onset) => (onset_counter' = 0)
        /\ (state # SPEAKING /\ state' = SPEAKING) => (Fed' # Fed)
      ]_vars

\* SPEAKING entered by two qualifying chunks after a qualifying one and a gap
OnsetAfterBrokenRun ==
    /\ cfg.min_speech_frames = 2
    /\ state = SPEAKING
    /\ speech_buffer = << >>
    /\ Len(Fed) = 4
    /\ Fed[1].prob >= cfg.threshold_onset
    /\ Fed[2].prob < cfg.threshold_onset
    /\ Fed[3].prob >= cfg.threshold_onset
    /\ Fed[4].prob >= cfg.threshold_onset

----------------------------------------------------------------------------
(* C2: in SPEAKING the segmenter returns to WAITING at the first chunk at
   which (a) the last silence_frames_needed chunks consumed each had
   probability < offset_threshold, or (b) the buffered sample count is
   >= max_speech_seconds x sample_rate, and at no earlier chunk; a chunk with
   probability >= offset_threshold resets SilenceCounter to 0. *)
OffsetRule ==
    [][ (state = SPEAKING /\ Fed' # Fed) =>
          /\ (state' = WAITING) <=>
                \/ SilentRun(Fed') >= cfg.silence_frames
                \/ SpeakingRun(Fed') * cfg.chunk_size >= ConfiguredMaximum
          /\ (state' = SPEAKING) => (silence_counter' = SilentRun(Fed'))
          /\ (LastFed(Fed').prob >= cfg.threshold_offset) => (silence_counter' = 0)
      ]_vars

\* an utterance ended by two silent chunks after a silent one and a loud one
SilenceEndAfterReset ==
    /\ cfg.silence_frames = 2
    /\ pc = "transcribing"
    /\ flush_kind = "silence"
    /\ Len(speech_buffer) = 4
    /\ LET F == Fed
           n == Len(Fed)
       IN /\ F[n - 3].prob < cfg.threshold_offset
          /\ F[n - 2].prob >= cfg.threshold_offset
          /\ F[n - 1].prob < cfg.threshold_offset
          /\ F[n].prob < cfg.threshold_offset

----------------------------------------------------------------------------
\* the least n with n * d >= m
CeilDiv(m, d) == (m + d - 1) \div d

\* the last thing the consumer did
LastDone(tr) == tr[Len(tr)]

(* C3: in SPEAKING a flush is forced on the first chunk at which buffered
   chunks x chunk_size >= max_speech_seconds x sample_rate, whatever the
   chunk's probability and the SilenceCounter; so every SPEAKING episode ends
   within ceil(max_speech_seconds x sample_rate / chunk_size) consumed chunks,
   the 157th buffered chunk for 5 s at 16000 Hz in chunks of 512. *)
HardCapRule ==
    [][ (state = SPEAKING /\ Fed' # Fed) =>
          /\ (SpeakingRun(Fed') * cfg.chunk_size >= ConfiguredMaximum) =>
                /\ state' = WAITING
                /\ pc' = "transcribing"
                /\ LastDone(trace').kind = "transcribe"
                /\ Len(LastDone(trace').chunks) = SpeakingRun(Fed')
          /\ SpeakingRun(Fed') <= CeilDiv(ConfiguredMaximum, cfg.chunk_size)
          /\ (flush_kind' = "cap") =>
                (SpeakingRun(Fed') = CeilDiv(ConfiguredMaximum, cfg.chunk_size))
          /\ (cfg.max_speech_ms = 5000 /\ cfg.sample_rate = 16000
                /\ cfg.chunk_size = 512) =>
                /\ SpeakingRun(Fed') <= 157
                /\ (flush_kind' = "cap") => (Len(speech_buffer') = 157)
      ]_vars

\* continuous speech: the flush forced on the 157th buffered chunk
ForcedFlushAt157 ==
    /\ cfg = ContinuousConfig
    /\ pc = "transcribing"
    /\ flush_kind = "cap"
    /\ Len(speech_buffer) = 157
    /\ silence_counter = 0
    /\ LastFed(Fed).prob >= cfg.threshold_offset

----------------------------------------------------------------------------
IsTranscribe(e) == e.kind = "transcribe"

\* the buffers handed to the transcriber so far
Handed == SelectSeq(trace, IsTranscribe)

SamplesOf(chunks) == Len(chunks) * cfg.chunk_size

(* C4, as claimed: in every reachable state, and for every buffer handed to
   the transcriber, the sample count of the utterance buffer is
   <= max_speech_seconds x sample_rate, also when chunk_size does not divide
   that maximum. *)
BufferWithinMaximum ==
    /\ SamplesOf(speech_buffer) <= ConfiguredMaximum
    /\ \A i \in 1..Len(Handed) : SamplesOf(Handed[i].chunks) <= ConfiguredMaximum

(* C4, amended: at every loop head the buffer holds fewer than the maximum;
   a buffer handed to the transcriber holds fewer than maximum + chunk_size
   samples, and at most the maximum when chunk_size divides it. *)
BufferWithinMaximumPlusChunk ==
    /\ (pc = "loop") => (SamplesOf(speech_buffer) < ConfiguredMaximum)
    /\ SamplesOf(speech_buffer) < ConfiguredMaximum + cfg.chunk_size
    /\ (ConfiguredMaximum % cfg.chunk_size = 0) =>
          (SamplesOf(speech_buffer) <= ConfiguredMaximum)
    /\ \A i \in 1..Len(Handed) :
          /\ SamplesOf(Handed[i].chunks) < ConfiguredMaximum + cfg.chunk_size
          /\ (ConfiguredMaximum % cfg.chunk_size = 0) =>
                (SamplesOf(Handed[i].chunks) <= ConfiguredMaximum)

\* a buffer above the maximum in the transcriber's hands
HandedAboveMaximum ==
    /\ pc = "transcribing"
    /\ flush_kind = "cap"
    /\ ConfiguredMaximum % cfg.chunk_size # 0
    /\ SamplesOf(speech_buffer) > ConfiguredMaximum
    /\ LastDone(trace).chunks = speech_buffer

----------------------------------------------------------------------------
\* spec Example 1: onset 0.6, offset 0.4, min_speech_frames 2, silence_frames 2
Example1Config == Config(6, 4, 2, 2, 144)

ProbsOf(F) == [ i \in 1..Len(F) |-> F[i].prob ]
SeqsOf(chunks) == [ i \in 1..Len(chunks) |-> chunks[i].seq ]

\* the six chunks of Example 1 have been fed to a fresh segmenter
Example1Fed ==
    /\ cfg = Example1Config
    /\ pc = "loop"
    /\ ProbsOf(Fed) = << 2, 7, 8, 3, 3, 2 >>

\* is_speaking = speaking is published right after the chunk of index k
PublishedAt(k, speaking) ==
    \E i \in 1..(Len(trace) - 1) :
        /\ trace[i].kind = "classify"
        /\ trace[i].chunk = k
        /\ trace[i + 1].kind = "publish_vad"
        /\ trace[i + 1].is_speaking = speaking

IsPublishVad(e) == e.kind = "publish_vad"

(* C5, as claimed: in Example 1 SPEAKING begins at index 2, the utterance ends
   at index 5 and the flushed buffer holds exactly the chunks 2 through 4. *)
Example1AsClaimed ==
    Example1Fed =>
        /\ PublishedAt(2, TRUE)
        /\ PublishedAt(5, FALSE)
        /\ Len(Handed) = 1
        /\ SeqsOf(Handed[1].chunks) = << 2, 3, 4 >>

(* C5, amended: in Example 1 SPEAKING begins at index 2, the utterance ends at
   index 4 (the second chunk below 0.4) and the flushed buffer holds exactly
   the chunks 3 and 4; chunk 5 is consumed in WAITING. *)
Example1AsCoded ==
    Example1Fed =>
        /\ PublishedAt(2, TRUE)
        /\ PublishedAt(4, FALSE)
        /\ Len(SelectSeq(trace, IsPublishVad)) = 2
        /\ Len(Handed) = 1
        /\ SeqsOf(Handed[1].chunks) = << 3, 4 >>
        /\ LastFed(Fed).state = WAITING
        /\ state = WAITING
        /\ speech_buffer = << >>

\* Example 1 has run to its end
Example1Done == Example1Fed /\ Len(Handed) = 1 /\ audio_queue = << >>

----------------------------------------------------------------------------
(* C6: every buffer handed to the transcriber is exactly the chunks consumed
   while SPEAKING since the last onset, in arrival order with no gap,
   duplicate or reordering; every chunk consumed in SPEAKING is appended
   whatever its probability, the one that ends the utterance included. *)
BufferIsEpisode ==
    [][ /\ (state = SPEAKING /\ Fed' # Fed) =>
             /\ Len(speech_buffer') = SpeakingRun(Fed')
             /\ speech_buffer'[Len(speech_buffer')].seq = LastFed(Fed').chunk
        /\ (pc = "loop" /\ pc' = "transcribing") =>
             LET handed == LastDone(trace').chunks
                 F      == Fed'
                 n      == SpeakingRun(Fed')
             IN /\ LastDone(trace').kind = "transcribe"
                /\ handed = speech_buffer'
                /\ n >= 1
                /\ Len(handed) = n
                /\ \A k \in 1..n : handed[k].seq = F[Len(F) - n + k].chunk
                /\ \A k \in 1..(n - 1) : handed[k + 1].seq = handed[k].seq + 1
      ]_vars

\* a flushed buffer of three chunks whose last two counted as silence
TrailingSilenceFlushed ==
    /\ cfg.silence_frames = 2
    /\ pc = "transcribing"
    /\ flush_kind = "silence"
    /\ Len(speech_buffer) = 3
    /\ LastDone(trace).chunks = speech_buffer
    /\ speech_buffer[3].seq = LastFed(Fed).chunk
    /\ Fed[Len(Fed) - 2].prob >= cfg.threshold_offset
    /\ Fed[Len(Fed) - 1].prob < cfg.threshold_offset
    /\ LastFed(Fed).prob < cfg.threshold_offset

----------------------------------------------------------------------------
(* C7, as claimed: the number of chunks waiting in the queue never exceeds a
   fixed bound.  A bound that does not depend on how long the consumer stalls
   keeps the backlog below the number of chunks a long enough run delivers. *)
QueueBelowDelivered == Len(audio_queue) < env.limit

(* C7, amended: the queue has no bound: the chunks waiting are always the
   chunks enqueued minus the chunks consumed, and every callback adds one,
   also while the consumer is inside a transcription. *)
QueueIsBacklog ==
    [][ /\ (pc' # "crashed") => (Len(audio_queue') = produced' - Len(Fed'))
        /\ (produced' = produced + 1) => (Len(audio_queue') = Len(audio_queue) + 1)
      ]_vars

\* four chunks pile up while the consumer is inside a transcription
BacklogDuringTranscription ==
    /\ pc = "transcribing"
    /\ Len(Fed) = 2
    /\ Len(audio_queue) = 4

----------------------------------------------------------------------------
(* C8: the capture callback never blocks: whatever the consumer is doing and
   however long the queue, a callback with a chunk to deliver can enqueue it. *)
ProducerNeverBlocks ==
    (pc \notin { "crashed", "exited" } /\ produced < env.limit) =>
        ENABLED AudioCallback

\* the callback can run with the consumer stalled and three chunks waiting
CallbackWhileStalled ==
    /\ pc = "transcribing"
    /\ Len(audio_queue) = 3
    /\ produced < env.limit
    /\ ENABLED AudioCallback

----------------------------------------------------------------------------
\* the chunks the capture callback has enqueued so far, by arrival index
Enqueued == [ i \in 1..produced |-> i - 1 ]

FedChunks == [ i \in 1..Len(Fed) |-> Fed[i].chunk ]

(* C9: the chunks classified and fed to the segmenter are a prefix of the
   chunks enqueued, and the rest wait in the queue in arrival order: no chunk
   is dropped, duplicated or reordered. *)
FifoDelivery ==
    (pc # "crashed") => (FedChunks \o SeqsOf(audio_queue) = Enqueued)

\* chunks classified after a transcription, with more still waiting
FedAfterTranscription ==
    /\ Len(Handed) >= 1
    /\ Len(Fed) >= 4
    /\ LastDone(trace).kind = "classify"
    /\ Len(audio_queue) >= 2

----------------------------------------------------------------------------
IsReset(e) == e.kind = "reset_states"

\* what the consumer did in this step
DoneInStep == SubSeq(trace', Len(trace) + 1, Len(trace'))

KindsOf(entries) == [ i \in 1..Len(entries) |-> entries[i].kind ]

(* C10: the classifier's hidden state is reset exactly once at every
   SPEAKING -> WAITING transition, silence-triggered or forced by the hard
   cap, and before the classifier is invoked on any later chunk. *)
ResetAtEveryEnd ==
    [][ /\ (state = SPEAKING /\ state' = WAITING) =>
             /\ KindsOf(DoneInStep) =
                   << "classify", "publish_vad", "reset_states", "transcribe" >>
             /\ vad_state' = 0
        /\ ~(state = SPEAKING /\ state' = WAITING) =>
             (SelectSeq(DoneInStep, IsReset) = << >>)
        /\ (state = WAITING /\ Fed' # Fed) =>
             (vad_state' = Trailing(Fed', ConsumedWaiting))
      ]_vars

\* a chunk classified right after a flush that the hard cap forced
ClassifiedAfterForcedFlush ==
    LET n == Len(trace) IN
    /\ n >= 7
    /\ trace[n].kind = "classify"
    /\ trace[n - 1].kind = "publish_transcript"
    /\ trace[n - 3].kind = "transcribe"
    /\ trace[n - 4].kind = "reset_states"
    /\ trace[n - 6].kind = "classify"
    /\ trace[n - 6].prob >= cfg.threshold_offset
    /\ vad_state = 1

----------------------------------------------------------------------------
(* C11: the consumer waits on the queue with a bounded timeout and tests the
   running flag after every wait: once the flag is cleared the loop exits
   after at most one more queue wait or one more chunk, even if no chunk ever
   arrives again. *)
StopBoundsTheLoop ==
    [][ /\ (~running') => (Len(Fed') <= stopped_at' + 1)
        /\ (~running /\ pc = "loop" /\ Fed' # Fed) =>
              (pc' \in { "exited", "transcribing" })
        /\ (~running /\ pc = "transcribing" /\ pc' # pc) =>
              (pc' \in { "exited", "crashed" })
        /\ (~running /\ pc = "loop" /\ audio_queue = << >>) =>
              /\ ENABLED QueueTimeout
              /\ (produced' = produced) => (pc' = "exited")
        /\ (pc = "exited") => (pc' = "exited")
      ]_vars

\* the loop has left after one wait in which no chunk came
ExitedWithoutChunk ==
    /\ pc = "exited"
    /\ state = WAITING
    /\ audio_queue = << >>
    /\ stopped_at >= 1
    /\ Len(Fed) = stopped_at
    /\ produced = stopped_at

----------------------------------------------------------------------------
(* C12: a tick on which no chunk is available leaves the segmenter entirely
   unchanged (state, OnsetCounter, SilenceCounter, buffer) in WAITING and in
   SPEAKING, and emits no side effect. *)
TimeoutLeavesSegmenter ==
    [][ (pc = "loop" /\ audio_queue = << >> /\ produced' = produced) =>
          UNCHANGED << state, onset_counter, silence_counter, speech_buffer,
                       flush_kind, vad_state, trace >>
      ]_vars

\* a wait that timed out in SPEAKING, one silent chunk counted before it: the
\* loop was stopped inside the wait and left without another chunk
TimeoutTickInSpeaking ==
    /\ pc = "exited"
    /\ state = SPEAKING
    /\ silence_counter = 1
    /\ Len(speech_buffer) = 2
    /\ Len(Fed) = stopped_at

----------------------------------------------------------------------------
(* C13: when the speech-probability call raises for a chunk (e.g. on a chunk
   of the wrong length) that tick is logged and skipped: the processing loop
   keeps running, the state and counters are unchanged, and later chunks are
   still processed. *)
FailedTickSkipped ==
    [][ ( /\ pc = "loop"
          /\ audio_queue # << >>
          /\ Head(audio_queue).len # CHUNK_SAMPLES
          /\ audio_queue' # audio_queue
          /\ produced' = produced ) =>
            /\ pc' \in { "loop", "exited" }
            /\ UNCHANGED << state, onset_counter, silence_counter, speech_buffer >>
      ]_vars

----------------------------------------------------------------------------
\* the entries of the given kind among `entries`
OfKind(entries, kind) == SelectSeq(entries, LAMBDA e : e.kind = kind)

(* C14: a flushed utterance whose transcript text is empty produces no
   transcript publish and no saved audio, raises nothing, and leaves the
   segmenter in WAITING with empty buffer and zero counters, ready for the next
   utterance; a transcript is published exactly when the text is non-empty. *)
EmptyTranscriptRecovered ==
    [][ /\ (pc # "transcribing") =>
              /\ OfKind(DoneInStep, "publish_transcript") = << >>
              /\ OfKind(DoneInStep, "save_audio") = << >>
        /\ (pc = "transcribing" /\ pc' # pc) =>
              LET done == DoneInStep
                  text == done[1].payload[1]
              IN /\ done[1].kind = "transcribed"
                 /\ Len(OfKind(done, "transcribed")) = 1
                 /\ (text = << >>) =>
                       /\ Len(done) = 1
                       /\ pc' \in { "loop", "exited" }
                       /\ state' = WAITING
                       /\ speech_buffer' = << >>
                       /\ onset_counter' = 0
                       /\ silence_counter' = 0
                 /\ (text # << >>) =>
                       /\ Len(OfKind(done, "publish_transcript")) = 1
                       /\ done[2].kind = "publish_transcript"
                       /\ done[2].payload[1] = text
      ]_vars

\* with saving switched on for every utterance: an empty transcript left no
\* publish and no file, and the utterance after it was published
PublishedAfterEmptyTranscript ==
    /\ cfg.data_collection = [ enabled |-> TRUE, save_all |-> "true" ]
    /\ Len(trace) >= 2
    /\ trace[Len(trace)].kind = "save_audio"
    /\ trace[Len(trace) - 1].kind = "publish_transcript"
    /\ Len(OfKind(trace, "transcribed")) = 2
    /\ Len(OfKind(trace, "publish_transcript")) = 1
    /\ Len(OfKind(trace, "save_audio")) = 1
    /\ OfKind(trace, "transcribed")[1].payload[1] = << >>

----------------------------------------------------------------------------
(* The transcriber's score, read from the results only *)

\* the results for the outputs without any segment
ScoredWithoutSegments ==
    { i \in 1..Len(stt_results) : stt_outputs[i].segments = << >> }

(* C15 as stated: an utterance with no segments is scored with
   avg_logprob = -1.0 and no_speech_prob = 1.0, and the resulting confidence
   is a small positive value, never exactly 0. *)
NoSegmentsScorePositive ==
    \A i \in ScoredWithoutSegments :
        /\ stt_results[i].avg_logprob = -100
        /\ stt_results[i].no_speech_prob = 100
        /\ stt_results[i].confidence > 0

(* C15 as coded: an utterance with no segments is scored with
   avg_logprob = -1.0 and no_speech_prob = 1.0, and the resulting confidence
   is exactly 0: the factor 1 - no_speech_prob is 0. *)
NoSegmentsScoreZero ==
    \A i \in ScoredWithoutSegments :
        /\ stt_results[i].avg_logprob = -100
        /\ stt_results[i].no_speech_prob = 100
        /\ stt_results[i].confidence = 0

\* an output without segments has been scored, after one with segments
ScoredNoSegments ==
    /\ Len(stt_results) = 2
    /\ stt_outputs[1].segments # << >>
    /\ stt_results[1].confidence > 0
    /\ 2 \in ScoredWithoutSegments

\* clamp01((avg_logprob + 1.5) / 1.2) * (1 - no_speech_prob), in units of
\* 1/12000, for values in hundredths
ClaimedConfidence(avg_logprob, no_speech_prob) ==
    LET x == avg_logprob + 150 IN
    (IF x < 0 THEN 0 ELSE IF x > 120 THEN 120 ELSE x) * (100 - no_speech_prob)

(* C16: the confidence score equals clamp01((avg_logprob + 1.5) / 1.2) x
   (1 - no_speech_prob): for every avg_logprob and every no_speech_prob in
   [0,1] the result lies in [0,1], it is non-decreasing in avg_logprob and
   non-increasing in no_speech_prob, confidence(-0.3, 0.0) = 1.0 and
   confidence(-1.5, 0.5) = 0.0. *)
ConfidenceFormula ==
    \A i \in 1..Len(stt_results) :
        LET r == stt_results[i] IN
        /\ r.confidence = ClaimedConfidence(r.avg_logprob, r.no_speech_prob)
        /\ r.confidence >= 0
        /\ r.confidence <= 12000
        /\ (r.avg_logprob = -30 /\ r.no_speech_prob = 0) => (r.confidence = 12000)
        /\ (r.avg_logprob = -150 /\ r.no_speech_prob = 50) => (r.confidence = 0)
        /\ \A j \in 1..Len(stt_results) :
             LET q == stt_results[j] IN
             /\ (q.avg_logprob <= r.avg_logprob
                   /\ q.no_speech_prob = r.no_speech_prob) =>
                     (q.confidence <= r.confidence)
             /\ (q.avg_logprob = r.avg_logprob
                   /\ q.no_speech_prob <= r.no_speech_prob) =>
                     (q.confidence >= r.confidence)

\* the two examples have been scored, one after the other
ExamplesScored ==
    /\ Len(stt_results) = 2
    /\ stt_outputs[1].segments = << Segment(-30, 0) >>
    /\ stt_results[1].confidence = 12000
    /\ stt_outputs[2].segments = << Segment(-150, 50) >>
    /\ stt_results[2].confidence = 0

----------------------------------------------------------------------------
(* The event tracker, read from what run has done *)

\* the labels of the classified frames, in order
LabelsOf(log) ==
    LET seen == OfKind(log, "detect") IN [ i \in 1..Len(seen) |-> seen[i].label ]

\* the calls of trigger_event
Triggers(log) == OfKind(log, "trigger_event")

\* the number of identical labels that end the sequence
RECURSIVE RunLength(_)
RunLength(labels) ==
    IF labels = << >> THEN 0
    ELSE IF Len(labels) = 1 THEN 1
    ELSE IF labels[Len(labels)] = labels[Len(labels) - 1]
         THEN 1 + RunLength(SubSeq(labels, 1, Len(labels) - 1))
         ELSE 1

\* this step classified a frame
FrameClassified == Len(LabelsOf(detections')) > Len(LabelsOf(detections))

\* the label of the frame this step classified
FrameLabel == LabelsOf(detections')[Len(LabelsOf(detections'))]

\* this step called trigger_event
Fired == Len(Triggers(detections')) > Len(Triggers(detections))

(* C17: a trigger fires if and only if the run-length of consecutive
   identical labels of some tracked (non-reserved) label reaches that label's
   configured threshold, and it fires on exactly the frame that completes the
   run; with thresholds {A: 3, B: 2} and labels [A,A,B,B] nothing fires in the
   first three frames (A resets to 0 at frame 3) and B fires at frame 4. *)
TriggerAtThreshold ==
    [][ /\ Fired => FrameClassified
        /\ FrameClassified =>
             /\ Fired <=> /\ FrameLabel \in DOMAIN confirm_map
                          /\ FrameLabel # "NONE"
                          /\ RunLength(LabelsOf(detections')) = confirm_map[FrameLabel]
             /\ Fired => /\ detections'[Len(detections')].kind = "trigger_event"
                         /\ detections'[Len(detections')].label = FrameLabel
                         /\ detections'[Len(detections')].frame = frame_num'
        /\ (scenario = EventScenario(ExampleEvents, << >>) /\ frame_num' = 3
              /\ LabelsOf(detections') = << "A", "A", "B" >>) =>
             /\ Triggers(detections') = << >>
             /\ counters'["A"] = 0
        /\ (scenario = EventScenario(ExampleEvents, << >>) /\ frame_num' = 4
              /\ LabelsOf(detections') = << "A", "A", "B", "B" >>) =>
             /\ Fired
             /\ Triggers(detections')[1].label = "B"
             /\ Triggers(detections')[1].frame = 4
      ]_vars

\* Example 2 has run: B fired at frame 4
ExampleTriggered ==
    /\ scenario = EventScenario(ExampleEvents, << >>)
    /\ LabelsOf(detections) = << "A", "A", "B", "B" >>
    /\ frame_num = 4
    /\ Len(Triggers(detections)) = 1
    /\ Triggers(detections)[1].label = "B"
    /\ counters["A"] = 0
    /\ counters["B"] = 2

----------------------------------------------------------------------------
(* C18: the tracker is single-shot: over any input sequence at most one
   EventTrigger is produced per run, and after a trigger no further frame is
   captured, classified or counted. *)
SingleShot ==
    [][ /\ Len(Triggers(detections')) <= 1
        /\ (Triggers(detections) # << >>) =>
              UNCHANGED << frame_num, counters, detections >>
      ]_vars

\* a trigger on the second frame, with frames still to come
TriggeredEarly ==
    /\ Len(Triggers(detections)) = 1
    /\ Triggers(detections)[1].frame = 2
    /\ frame_num = 2
    /\ LabelsOf(detections) = << "B", "B" >>
    /\ ~camera_open

----------------------------------------------------------------------------
(* C19: after every tracker update at most one entry of the label counter map
   is non-zero: the counter of the frame's label (if tracked) is incremented by
   one and every other tracked counter is reset to 0. *)
OneCounterNonZero ==
    [][ /\ Cardinality({ l \in DOMAIN counters' : counters'[l] # 0 }) <= 1
        /\ FrameClassified =>
             \A l \in DOMAIN counters' :
                counters'[l] = IF l = FrameLabel THEN counters[l] + 1 ELSE 0
        /\ ~FrameClassified => (counters' = counters)
      ]_vars

\* a run of two A, then a B: the count of A is gone
CounterResetByOtherLabel ==
    /\ LabelsOf(detections) = << "A", "A", "B" >>
    /\ DOMAIN counters = { "A", "B" }
    /\ counters["A"] = 0
    /\ counters["B"] = 1
    /\ confirm_map["B"] = 2

----------------------------------------------------------------------------
(* C20: a frame whose label is the reserved no-event label (NONE) or any
   label outside the tracked set resets every tracked counter to 0 and never
   produces a trigger, and is never fatal to the run; no trigger is ever
   produced for the reserved label, even if a scenario lists it as an event and
   it is seen threshold-many times in a row. *)
ReservedNeverTriggers ==
    [][ /\ (FrameClassified
              /\ (FrameLabel = "NONE" \/ FrameLabel \notin DOMAIN confirm_map)) =>
             /\ \A l \in DOMAIN counters' \ { "NONE" } : counters'[l] = 0
             /\ ~Fired
             /\ run_pc' = "loop"
        /\ \A i \in 1..Len(Triggers(detections')) :
              Triggers(detections')[i].label # "NONE"
      ]_vars

\* the scenario lists NONE with a threshold of 2; a run of A was cut by three
\* NONE frames in a row and the loop goes on
ReservedSeenInARow ==
    /\ "NONE" \in DOMAIN confirm_map
    /\ confirm_map["NONE"] = 2
    /\ LabelsOf(detections) = << "A", "NONE", "NONE", "NONE" >>
    /\ counters["A"] = 0
    /\ Triggers(detections) = << >>
    /\ run_pc = "loop"

----------------------------------------------------------------------------
\* this step's call of adapter.detect raised
DetectFailed ==
    Len(OfKind(detections', "detect_raised")) > Len(OfKind(detections, "detect_raised"))

(* C21: if the classifier call raises during a tracker run, the failure is
   surfaced to the caller of the run and not absorbed: no EventTrigger is
   produced on that or any later frame of the run, and the camera is closed
   and the adapter unloaded on this exit just as on the trigger exit. *)
DetectFailureSurfaced ==
    [][ /\ DetectFailed =>
             /\ run_pc' = "raised"
             /\ ~Fired
             /\ ~camera_open'
             /\ ~adapter_loaded'
             /\ counters' = counters
        /\ (OfKind(detections, "detect_raised") # << >>) =>
             UNCHANGED << frame_num, counters, detections >>
        /\ Fired => (~camera_open' /\ ~adapter_loaded')
        /\ (~DetectFailed /\ ~Fired) => (camera_open' /\ adapter_loaded')
      ]_vars

\* the classifier raised on the third frame, B one frame short of its
\* threshold: the run is over with no trigger
RaisedBeforeThreshold ==
    /\ scenario = EventScenario(ExampleEvents, << >>)
    /\ LabelsOf(detections) = << "A", "B" >>
    /\ frame_num = 3
    /\ detections[Len(detections)].kind = "detect_raised"
    /\ run_pc = "raised"
    /\ Triggers(detections) = << >>
    /\ ~camera_open
    /\ ~adapter_loaded

----------------------------------------------------------------------------
(* C22: the segmenter state, utterance buffer and both counters, and the
   classifier, are touched only by the single consumer loop: the capture
   callback's only shared write is the enqueue, so no interleaving of producer
   and consumer can change the segmenter's state between two consumer steps or
   invoke the classifier concurrently. *)
SegmenterOwnedByConsumer ==
    [][ /\ (produced' # produced) =>
             /\ Len(audio_queue') = Len(audio_queue) + 1
             /\ UNCHANGED << pc, flush_kind, state, speech_buffer, onset_counter,
                             silence_counter, vad_state, trace, running >>
        /\ (<< state, speech_buffer, onset_counter, silence_counter, vad_state,
               trace >>' #
            << state, speech_buffer, onset_counter, silence_counter, vad_state,
               trace >>) =>
             /\ pc \in { "loop", "transcribing" }
             /\ produced' = produced
        /\ (Fed' # Fed) =>
             /\ pc = "loop"
             /\ Len(Fed') = Len(Fed) + 1
             /\ Len(audio_queue') = Len(audio_queue) - 1
             /\ vad_state' \in { vad_state + 1, 0 }
        /\ (Fed' = Fed /\ vad_state' # vad_state) => (pc = "transcribing")
      ]_vars

\* two chunks were enqueued while an utterance was under way with one silent
\* chunk counted: the segmenter is as the consumer left it
EnqueuedMidUtterance ==
    /\ pc = "loop"
    /\ state = SPEAKING
    /\ silence_counter = 1
    /\ Len(speech_buffer) = 1
    /\ Len(audio_queue) = 2
    /\ vad_state = Len(Fed)
    /\ produced = Len(Fed) + 2

----------------------------------------------------------------------------
\* the loop is at its head: about to test the flag and wait, or just left
AtLoopHead == pc \in { "loop", "exited" }

(* C23: at every loop head the segmenter state is exactly one of WAITING or
   SPEAKING (initially WAITING; SILENCE is never reached); in WAITING the
   buffer is empty and SilenceCounter = 0; in SPEAKING OnsetCounter = 0; both
   counters are non-negative with OnsetCounter < min_speech_frames and
   SilenceCounter < silence_frames_needed, and both are 0 immediately after
   every state transition. *)
LoopHeadInvariant ==
    [][ /\ state' # "SILENCE"
        /\ (Fed' = << >>) => (state' = "WAITING")
        /\ AtLoopHead' =>
             /\ state' \in { "WAITING", "SPEAKING" }
             /\ (state' = "WAITING") =>
                    (speech_buffer' = << >> /\ silence_counter' = 0)
             /\ (state' = "SPEAKING") => (onset_counter' = 0)
             /\ onset_counter' >= 0
             /\ onset_counter' < cfg.min_speech_frames
             /\ silence_counter' >= 0
             /\ silence_counter' < cfg.silence_frames
        /\ (state = "WAITING" /\ state' = "SPEAKING") =>
             /\ AtLoopHead'
             /\ onset_counter' = 0
             /\ silence_counter' = 0
        /\ (state = "SPEAKING" /\ state' = "WAITING") => (pc' = "transcribing")
        /\ (pc = "transcribing" /\ AtLoopHead') =>
             /\ state' = "WAITING"
             /\ onset_counter' = 0
             /\ silence_counter' = 0
      ]_vars

\* the loop head right after the second onset of a run, two qualifying chunks
\* needed: both counters are 0
SecondOnsetAtLoopHead ==
    /\ pc = "loop"
    /\ state = SPEAKING
    /\ cfg.min_speech_frames = 2
    /\ onset_counter = 0
    /\ silence_counter = 0
    /\ speech_buffer = << >>
    /\ Len(OfKind(trace, "transcribe")) = 1
    /\ LastDone(trace).kind = "publish_vad"

----------------------------------------------------------------------------
\* what this turn of the scene loop did
SceneDone == scene_log'[Len(scene_log')]

(* C24: ChangeDetector returns (0.0, false) when there is no previously
   stored frame, and otherwise exceeded is true exactly when the magnitude is
   strictly greater than the threshold (a magnitude equal to the threshold is
   not flagged); the stored reference is replaced by the current frame on every
   successfully captured tick whether or not the threshold was exceeded, and is
   left unchanged by a failed capture. *)
ChangeDetectorRule ==
    [][ (scene_log' # scene_log) =>
          /\ (SceneDone.kind = "snapshot" /\ last_frame_gray = << >>) =>
                (SceneDone.magnitude = 0 /\ ~SceneDone.change_detected)
          /\ (SceneDone.kind = "snapshot" /\ last_frame_gray # << >>) =>
                /\ SceneDone.change_detected <=>
                      (SceneDone.magnitude > 25 * Len(SceneDone.frame))
                /\ SceneDone.magnitude =
                      Abs(SceneDone.frame[1] - last_frame_gray[1][1])
                      + Abs(SceneDone.frame[2] - last_frame_gray[1][2])
          /\ (SceneDone.kind = "snapshot") =>
                (last_frame_gray' = << SceneDone.frame >>)
          /\ (SceneDone.kind = "capture_failed") =>
                (last_frame_gray' = last_frame_gray)
      ]_vars

\* a frame at exactly the threshold from the stored one was not flagged and
\* became the reference, and a failed capture after it left it there
EqualToThresholdNotFlagged ==
    /\ Len(scene_log) = 3
    /\ scene_log[1].kind = "snapshot"
    /\ scene_log[1].frame = << 0, 0 >>
    /\ scene_log[2].kind = "snapshot"
    /\ scene_log[2].frame = << 25, 25 >>
    /\ scene_log[2].magnitude = 50
    /\ ~scene_log[2].change_detected
    /\ scene_log[3].kind = "capture_failed"
    /\ last_frame_gray = << << 25, 25 >> >>

----------------------------------------------------------------------------
\* a probability inside the hysteresis band
InBand(p) == cfg.threshold_offset <= p /\ p < cfg.threshold_onset

(* C25: a chunk whose probability p satisfies offset_threshold <= p <
   onset_threshold never causes a WAITING -> SPEAKING transition and never
   advances the silence run; in WAITING it resets OnsetCounter to 0, in
   SPEAKING it resets SilenceCounter to 0, so a stream held inside the band can
   leave SPEAKING only through the hard cap and can never leave WAITING. *)
HysteresisBand ==
    [][ (Fed' # Fed /\ InBand(LastFed(Fed').prob)) =>
          /\ (state = "WAITING") =>
                /\ state' = "WAITING"
                /\ onset_counter' = 0
                /\ OfKind(DoneInStep, "publish_vad") = << >>
          /\ (state = "SPEAKING") =>
                /\ silence_counter' = 0
                /\ (state' = "WAITING") =>
                      /\ Len(speech_buffer') * cfg.chunk_size >= ConfiguredMaximum
                      /\ Len(speech_buffer) * cfg.chunk_size < ConfiguredMaximum
      ]_vars

\* one qualifying chunk, then five chunks inside the band: the fifth brings
\* the hard cap, no silence was ever counted
BandHeldUntilCap ==
    /\ cfg.threshold_onset = 7
    /\ cfg.threshold_offset = 3
    /\ pc = "transcribing"
    /\ ProbsOf(Fed) = << 7, 3, 3, 3, 3, 3 >>
    /\ Len(speech_buffer) = 5
    /\ Len(OfKind(trace, "publish_vad")) = 2

----------------------------------------------------------------------------
\* the is_speaking=false publishes among `entries`
SpeechEnds(entries) ==
    SelectSeq(entries, LAMBDA e : e.kind = "publish_vad" /\ ~e.is_speaking)

(* C26: no consumed chunk causes two flushes and the transcriber is never
   handed an empty buffer: when the silence-triggered end and the hard cap are
   both reached on the same chunk, the utterance is flushed exactly once, with
   exactly one is_speaking=false publish and one classifier reset. *)
OneFlushPerChunk ==
    [][ /\ Len(OfKind(DoneInStep, "transcribe")) <= 1
        /\ Len(SpeechEnds(DoneInStep)) = Len(OfKind(DoneInStep, "transcribe"))
        /\ Len(OfKind(DoneInStep, "reset_states")) =
              Len(OfKind(DoneInStep, "transcribe"))
        /\ \A i \in 1..Len(DoneInStep) :
              (DoneInStep[i].kind = "transcribe") => (DoneInStep[i].chunks # << >>)
        /\ (OfKind(DoneInStep, "transcribe") # << >>) => (Fed' # Fed)
        /\ Len(OfKind(trace', "transcribe")) <= Len(Fed')
      ]_vars

\* two silent chunks after the onset: the second one ends the utterance and
\* fills the buffer to the maximum, and the turn is over with one flush
SilenceEndAtCap ==
    /\ cfg.silence_frames = 2
    /\ cfg.min_speech_frames = 1
    /\ ConfiguredMaximum = 2 * cfg.chunk_size
    /\ pc = "loop"
    /\ Len(Fed) = 3
    /\ Fed[2].prob < cfg.threshold_offset
    /\ Fed[3].prob < cfg.threshold_offset
    /\ Len(Handed) = 1
    /\ Len(Handed[1].chunks) = 2
    /\ Len(SpeechEnds(trace)) = 1
    /\ Len(OfKind(trace, "reset_states")) = 1

----------------------------------------------------------------------------
\* the is_speaking publishes so far
VadSignals(tr) == OfKind(tr, "publish_vad")

(* C27: published outputs are strictly ordered per utterance: the is_speaking
   signals alternate true, false, true, ... starting with true; each
   is_speaking=false is followed by the flush of that utterance to the
   transcriber (and its transcript publish, if any) before any later chunk is
   classified, so the transcript of utterance k is always published before
   is_speaking=true of utterance k+1, and transcripts appear in utterance
   order. *)
OutputsOrdered ==
    /\ \A i \in 1..Len(VadSignals(trace)) :
          VadSignals(trace)[i].is_speaking = (i % 2 = 1)
    /\ \A i \in 1..Len(trace) :
          /\ (trace[i].kind = "publish_vad" /\ ~trace[i].is_speaking) =>
                /\ i >= 2
                /\ trace[i - 1].kind = "classify"
                /\ (i + 2 <= Len(trace)) =>
                      /\ trace[i + 2].kind = "transcribe"
                      /\ trace[i + 2].chunks # << >>
                      /\ LastFed(trace[i + 2].chunks).seq = trace[i - 1].chunk
                /\ (i + 3 <= Len(trace)) => (trace[i + 3].kind = "transcribed")
                /\ (i + 4 <= Len(trace) /\ trace[i + 3].payload[1] # << >>) =>
                      (trace[i + 4].kind = "publish_transcript")
          /\ (trace[i].kind = "publish_transcript") =>
                /\ i >= 5
                /\ trace[i - 1].kind = "transcribed"
                /\ trace[i - 1].payload[1] = trace[i].payload[1]
                /\ trace[i - 2].kind = "transcribe"
                /\ trace[i - 4].kind = "publish_vad"
                /\ ~trace[i - 4].is_speaking
          /\ (trace[i].kind = "classify" /\ i >= 2) =>
                (trace[i - 1].kind
                    \in { "classify", "publish_vad", "transcribed",
                          "publish_transcript", "save_audio" })
          /\ (trace[i].kind = "classify" /\ i >= 2
                /\ trace[i - 1].kind = "publish_vad") => trace[i - 1].is_speaking
    /\ (pc = "loop") =>
          (Len(OfKind(trace, "transcribed")) = Len(SpeechEnds(trace)))

\* two utterances of a run, each published before the next thing happened
TwoTranscriptsInOrder ==
    /\ pc = "loop"
    /\ Len(VadSignals(trace)) = 4
    /\ Len(OfKind(trace, "publish_transcript")) = 2
    /\ LastDone(trace).kind = "publish_transcript"
    /\ Len(Handed) = 2
    /\ SeqsOf(Handed[1].chunks) = << 1 >>
    /\ SeqsOf(Handed[2].chunks) = << 3 >>

----------------------------------------------------------------------------
\* arrival indices of the chunks in buffers handed to the transcriber or in
\* the buffer under way
Buffered ==
    UNION { { Handed[k].chunks[i].seq : i \in 1..Len(Handed[k].chunks) } :
              k \in 1..Len(Handed) }
      \cup { speech_buffer[i].seq : i \in 1..Len(speech_buffer) }

\* the chunks fed between the end of the k-th handed buffer and the start of
\* the next one
GapAfter(k) ==
    { j \in 1..Len(Fed) :
        /\ Fed[j].chunk > LastFed(Handed[k].chunks).seq
        /\ Fed[j].chunk < Handed[k + 1].chunks[1].seq }

(* C28: every chunk consumed while in WAITING, including the
   min_speech_frames chunks that confirm an onset, belongs to no utterance
   buffer; after a hard-cap flush under uninterrupted speech the segmenter
   needs min_speech_frames fresh qualifying chunks to re-enter SPEAKING and
   those chunks are never transcribed; each consumed chunk belongs to at most
   one flushed utterance. *)
WaitingChunksUnbuffered ==
    /\ \A j \in 1..Len(Fed) :
          (Fed[j].state = "WAITING") <=> (Fed[j].chunk \notin Buffered)
    /\ \A k \in 1..Len(Handed) :
          /\ \A i, j \in 1..Len(Handed[k].chunks) :
                (i # j) => (Handed[k].chunks[i].seq # Handed[k].chunks[j].seq)
          /\ \A l \in 1..Len(Handed) :
                (k # l) =>
                   \A i \in 1..Len(Handed[k].chunks), j \in 1..Len(Handed[l].chunks) :
                       Handed[k].chunks[i].seq # Handed[l].chunks[j].seq
          /\ Handed[k].chunks[1].seq >= cfg.min_speech_frames
    /\ \A k \in 1..(Len(Handed) - 1) :
          /\ Cardinality(GapAfter(k)) >= cfg.min_speech_frames
          /\ (\A j \in GapAfter(k) : Fed[j].prob >= cfg.threshold_onset) =>
                (Cardinality(GapAfter(k)) = cfg.min_speech_frames)

\* uninterrupted speech across a hard-cap flush: chunks 2 and 3 are flushed,
\* chunks 4 and 5 confirm the next onset, and nothing is buffered yet
ReentryAfterForcedFlush ==
    /\ cfg.min_speech_frames = 2
    /\ ConfiguredMaximum = 2 * cfg.chunk_size
    /\ pc = "loop"
    /\ state = SPEAKING
    /\ Len(Fed) = 6
    /\ \A j \in 1..Len(Fed) : Fed[j].prob >= cfg.threshold_onset
    /\ Len(Handed) = 1
    /\ SeqsOf(Handed[1].chunks) = << 2, 3 >>
    /\ speech_buffer = << >>

----------------------------------------------------------------------------
\* this step was a turn in which no frame was captured
CaptureFailed ==
    Len(OfKind(detections', "capture_failed")) > Len(OfKind(detections, "capture_failed"))

\* the counter a label has after the classified frames so far
RunOf(labels, l) ==
    IF labels # << >> /\ labels[Len(labels)] = l THEN RunLength(labels) ELSE 0

(* C29: a failed frame capture leaves every label counter unchanged and
   invokes neither the classifier nor the trigger check, so a run of identical
   labels continues across capture failures and the confirm threshold counts
   consecutive successfully classified frames, not consecutive ticks. *)
CaptureFailureKeepsRun ==
    [][ /\ CaptureFailed =>
             /\ counters' = counters
             /\ ~FrameClassified
             /\ ~Fired
             /\ run_pc' = run_pc
             /\ frame_num' = frame_num + 1
        /\ \A l \in DOMAIN counters' :
             counters'[l] = RunOf(LabelsOf(detections'), l)
        /\ Fired =>
             LET fired == Triggers(detections')[Len(Triggers(detections'))]
             IN RunLength(LabelsOf(detections')) >= confirm_map[fired.label] ]_vars

\* A, no frame, A with a threshold of 2: the event is confirmed on tick 3
ConfirmedAcrossCaptureFailure ==
    /\ Len(detections) = 4
    /\ detections[1].kind = "detect" /\ detections[1].label = "A"
    /\ detections[2].kind = "capture_failed"
    /\ detections[3].kind = "detect" /\ detections[3].label = "A"
    /\ detections[4].kind = "trigger_event" /\ detections[4].label = "A"
    /\ detections[4].frame = 3
    /\ confirm_map["A"] = 2

----------------------------------------------------------------------------
(* C30: a tracked label whose confirm threshold is 0 (per-event value or the
   global override) never triggers no matter how long its run is, so a run
   whose thresholds are all 0 never ends with a trigger; for every label with
   threshold >= 1 other than the reserved one, its counter never exceeds its
   threshold in any reachable state. *)
ZeroThresholdNeverTriggers ==
    /\ \A i \in 1..Len(detections) :
          (detections[i].kind = "trigger_event") =>
              confirm_map[detections[i].label] # 0
    /\ (\A l \in DOMAIN confirm_map : confirm_map[l] = 0) =>
          /\ Triggers(detections) = << >>
          /\ run_pc \in { "loop", "raised" }
    /\ \A l \in DOMAIN counters :
          (confirm_map[l] >= 1 /\ l # NONE_LABEL) =>
              /\ counters[l] <= confirm_map[l]
              /\ \A i \in 1..Len(detections) :
                    detections[i].counters[l] <= confirm_map[l]

\* --confirm-frames 0: A has been seen on every frame of a long run and the
\* loop is still going
LongRunWithoutTrigger ==
    /\ scenario.override = << 0 >>
    /\ \A l \in DOMAIN confirm_map : confirm_map[l] = 0
    /\ counters["A"] >= 5
    /\ RunLength(LabelsOf(detections)) >= 5
    /\ Triggers(detections) = << >>
    /\ run_pc = "loop"

====
